---- MODULE Spec2Model ----
(***************************************************************************)
(* Registrador de Atividades 2.0: the activity session lifecycle.          *)
(*                                                                         *)
(* The model follows src/src/GUI_principal.py (MainScreen: the in-memory   *)
(* session state, the start/stop handlers, the login-time lookup and the   *)
(* auto-finalizer), src/src/handle_db.py (the operations on the remote     *)
(* table "atividades", the sweep of the rows left open), src/src/main.py   *)
(* (the signal handlers, the two finalizers, the ways out of main()) and   *)
(* src/src/GUI_login.py (the credential vault: users.json, hash_password,  *)
(* verify_password, fazer_login and the creation of an account).           *)
(*                                                                         *)
(* Encodings                                                               *)
(*   - a point in time is a number of half minutes (the auto-finalizer's   *)
(*     Clock interval is 30 s) since 00:00 of day 0, read on the           *)
(*     America/Sao_Paulo wall clock (handle_db.TIMEZONE);                  *)
(*   - an optional value is <<>> (None) or <<v>>; the optional activity id *)
(*     is 0 for None (ids come from a bigserial, so they start at 1, and   *)
(*     the handlers test the id by truthiness);                            *)
(*   - the table is a sequence of rows, a row's id is its index: rows are  *)
(*     never deleted by the program;                                       *)
(*   - a text of users.json is a tagged value: base64 text decodes to the  *)
(*     bytes it was encoded from, any other text is refused; a derived key *)
(*     names the password, salt and iteration count it was derived from;   *)
(*   - a ToggleButton is named by its text: carregar_atividades builds the *)
(*     buttons anew at each login, and a reference to a button of an       *)
(*     earlier login behaves as the one to the new button of that text.    *)
(***************************************************************************)
EXTENDS Integers, Sequences, FiniteSets, TLC

VARIABLES
    now,                    \* the wall clock, in half minutes
    local_off,              \* the host's zone offset minus Sao Paulo's, in half minutes
    store,                  \* the rows of table "atividades"
    user_id,                \* ActivityTrackerApp.user_id ("" when logged out)
    screen,                 \* ActivityTrackerApp.sm.current
    leave_pending,          \* MainScreen.on_leave still to be dispatched by the transition
    running,                \* the main loop of App.run() is running
    current_activity_id,    \* MainScreen.current_activity_id (0: None)
    selected_activity_type, \* MainScreen.selected_activity_type
    selected_button,        \* MainScreen.selected_button, named by the button's text
    em_andamento,           \* start_button.disabled (= not end_button.disabled)
    popup,                  \* the message of the popup opened last
    auto_event,             \* MainScreen._auto_finalize_event is not None
    clock_events,           \* interval events of _auto_finalize_check scheduled in the Clock
    last_date,              \* MainScreen._auto_finalize_last_date
    workers,                \* worker_finalize threads that have not called the store yet
    callbacks,              \* callbacks the workers handed to Clock.schedule_once
    sweeps,                 \* threads running finalizar_atividades_em_andamento
    closing,                \* where the main thread is on its way out of main()
    signals_bound,          \* main() could install its SIGINT and SIGTERM handlers
    users_json,             \* the file users.json of the credential vault
    vault_call              \* the last hash_password / verify_password round trip

vars == <<now, local_off, store, user_id, screen, leave_pending, running,
          current_activity_id, selected_activity_type, selected_button, em_andamento,
          popup, auto_event, clock_events, last_date, workers, callbacks, sweeps,
          closing, signals_bound, users_json, vault_call>>

session == <<current_activity_id, selected_activity_type, selected_button, em_andamento>>
scheduler == <<auto_event, clock_events, last_date, workers, callbacks>>
identity == <<user_id, screen, leave_pending, running, closing>>
host == <<local_off, signals_bound, users_json, vault_call>>

-----------------------------------------------------------------------------
(* Bounds of the model *)

\* rows the table may hold
MaxRecs == 2
\* half minutes the clock may advance
MaxTime == 2
\* sweep threads alive at a time that let a signal start one more
MaxSweeps == 1

-----------------------------------------------------------------------------
(* Values *)

NoneStr == "None"
Users == {"ana", "bia"}
activity_types == {"Documentacao"}

\* the clock starts at 11:28:00 of day 0
ClockStart == ((11 * 60) + 28) * 2

HalfMinutesPerDay == 24 * 60 * 2

\* now.strftime("%H:%M"), as <<hour, minute>>
HHMM(t) == LET m == (t % HalfMinutesPerDay) \div 2 IN <<m \div 60, m % 60>>

\* now.date(), as the day's number
DateOf(t) == t \div HalfMinutesPerDay

targets == {<<11, 28>>, <<16, 10>>}

\* the popups' messages
MsgSelecione == "Por favor, selecione um tipo de atividade."
MsgFalhaIniciar == "Falha ao iniciar atividade"
MsgNaoHa == "Nao ha atividade em andamento para finalizar."
MsgFinalizada == "Atividade finalizada com sucesso."
MsgFalhaFinalizar == "Falha ao finalizar atividade"
MsgFalhaAuto == "Falha ao finalizar automaticamente"
MsgAuto == "Atividade finalizada automaticamente"
MsgPreencha == "Por favor, preencha todos os campos."
MsgNaoEncontrado == "Usuario nao encontrado. Cadastre-se primeiro."
MsgIncorretos == "Usuario ou senha incorretos."
MsgPreenchaUsuario == "Preencha usuario e senha."
MsgNaoCoincidem == "Senha e confirmacao nao coincidem."
MsgJaExiste == "Usuario ja existe. Escolha outro nome."
MsgFalhaSalvar == "Falha ao salvar usuario"
MsgContaCriada == "Conta criada com sucesso. Faca login."

-----------------------------------------------------------------------------
(* handle_db.py *)

\* the payload with horas_trabalhadas 0 in place of None
Payload_zero_hours(tipo, user, t) ==
    [tipo_atividade |-> tipo, user_id |-> user, inicio |-> t,
     fim |-> <<>>, horas_trabalhadas |-> <<0>>]

\* the row iniciar_nova_atividade inserts: fim is left to the column's default
\* (null), horas_trabalhadas is None
Payload(tipo, user, t) ==
    [tipo_atividade |-> tipo, user_id |-> user, inicio |-> t,
     fim |-> <<>>, horas_trabalhadas |-> <<>>]

\* datetime.fromisoformat(inicio_str).astimezone(TIMEZONE): column inicio is a
\* timestamp without time zone, so the string read back carries no offset and
\* astimezone takes it for a time of the host's zone
ReadInicio(inicio, off) == inicio - off

\* hours between inicio and fim, in half minutes
calcular_horas_trabalhadas(inicio, fim) == fim - inicio

\* finalizar_atividade with an update that writes fim alone
finalizar_atividade_fim_only(st, activity_id, out, t, off) ==
    IF out = "select_error" THEN [ok |-> FALSE, store |-> st]
    ELSE IF activity_id \notin DOMAIN st THEN [ok |-> FALSE, store |-> st]
    ELSE IF out = "update_error" THEN [ok |-> FALSE, store |-> st]
    ELSE [ok |-> TRUE, store |-> [st EXCEPT ![activity_id].fim = <<t>>]]

\* finalizar_atividade: select inicio, then update fim and horas_trabalhadas.
\* out is how the store answers: "ok", "select_error" or "update_error"; a call
\* that errors leaves the table as it was. inicio never changes once written,
\* so the select and the update are taken as one step.
finalizar_atividade(st, activity_id, out, t, off) ==
    IF out = "select_error" THEN [ok |-> FALSE, store |-> st]
    ELSE IF activity_id \notin DOMAIN st THEN [ok |-> FALSE, store |-> st]
    ELSE IF out = "update_error" THEN [ok |-> FALSE, store |-> st]
    ELSE [ok |-> TRUE,
          store |-> [st EXCEPT
              ![activity_id].fim = <<t>>,
              ![activity_id].horas_trabalhadas =
                  <<calcular_horas_trabalhadas(ReadInicio(st[activity_id].inicio, off), t)>>]]

FinalizeOutcomes == {"ok", "select_error", "update_error"}

\* buscar_atividade_em_andamento: the user's open row with the greatest id, as
\* <<id>>, or <<>>
OpenIds(st, user) == {i \in DOMAIN st : st[i].fim = <<>> /\ st[i].user_id = user}

buscar_atividade_em_andamento(st, user) ==
    IF OpenIds(st, user) = {} THEN <<>>
    ELSE <<CHOOSE i \in OpenIds(st, user) : \A j \in OpenIds(st, user) : j <= i>>

-----------------------------------------------------------------------------
(* GUI_login.py: the credential vault *)

Passwords == {"abc", "xyz", "qwe"}

\* secrets.token_bytes(16): the salts a call may draw
Salts == {<<"s1">>, <<"s2">>}

\* the default of hash_password's iterations and of record.get("iters", ...)
DefaultIterations == 200000

\* the iteration counts of the round trips: 1 .. MaxIters and the default
MaxIters == 5

IterCounts == (1..MaxIters) \cup {DefaultIterations}

\* str.strip() of what was typed in a text field: a value typed with blanks
\* around it, blanks alone, or a value typed bare
strip(s) ==
    CASE s = " ana " -> "ana"
      [] s = " abc " -> "abc"
      [] s = "  " -> ""
      [] OTHER -> s

TypedUsers == Users \cup {" ana ", "  ", ""}
TypedPasswords == Passwords \cup {" abc ", ""}

\* A field of a record of users.json is [kind, val]: kind "b64" is a text that
\* base64 decodes to the bytes val, "text" a text that base64 (or int) refuses,
\* "int" the number val[1], "missing" an absent key. Bytes are tuples.
Field(kind, val) == [kind |-> kind, val |-> val]

Missing == Field("missing", <<>>)
Refused == Field("text", <<>>)

\* base64.b64encode(bytes).decode("ascii")
b64encode(bytes) == Field("b64", bytes)

\* base64.b64decode(text): the bytes, or ok = FALSE when it raises
b64decode(f) ==
    IF f.kind = "b64" THEN [ok |-> TRUE, val |-> f.val] ELSE [ok |-> FALSE, val |-> <<>>]

\* hashlib.pbkdf2_hmac("sha256", password, salt, iterations): the derived key,
\* taken as collision free: the key names what it was derived from
pbkdf2_hmac(password, salt, iterations) == <<password, salt, iterations>>

\* hash_password that records the default iteration count whatever it used
hash_password_default_iters(password, salt, iterations) ==
    [kind |-> "dict",
     salt |-> b64encode(salt),
     hash |-> b64encode(pbkdf2_hmac(password, salt, iterations)),
     iters |-> Field("int", <<DefaultIterations>>)]

\* hash_password(password, salt, iterations), salt drawn by the caller of this
\* operator; iterations >= 1 (pbkdf2_hmac raises otherwise)
hash_password(password, salt, iterations) ==
    [kind |-> "dict",
     salt |-> b64encode(salt),
     hash |-> b64encode(pbkdf2_hmac(password, salt, iterations)),
     iters |-> Field("int", <<iterations>>)]

\* verify_password(password, salt_b64, hash_b64, iterations): "true", "false",
\* or "raise" when a decode or pbkdf2_hmac raises
verify_password(password, salt_b64, hash_b64, iterations) ==
    LET salt == b64decode(salt_b64)
        expected == b64decode(hash_b64)
    IN  IF ~salt.ok \/ ~expected.ok \/ iterations < 1 THEN "raise"
        ELSE IF pbkdf2_hmac(password, salt.val, iterations) = expected.val THEN "true"
        ELSE "false"

\* int(record.get("iters", 200000)), as <<n>>, or <<>> when int raises
record_iters(record) ==
    IF record.iters.kind = "missing" THEN <<DefaultIterations>>
    ELSE IF record.iters.kind = "int" THEN record.iters.val
    ELSE <<>>

\* the try block of fazer_login without its except clause: what reading the
\* record or verify_password raises reaches the caller as "raise"
login_ok_uncaught(password, record) ==
    IF record.kind # "dict" THEN "raise"
    ELSE IF record.salt.kind = "missing" \/ record.hash.kind = "missing" THEN "raise"
    ELSE IF record_iters(record) = <<>> THEN "raise"
    ELSE verify_password(password, record.salt, record.hash, record_iters(record)[1])

\* the try block of fazer_login: ok is what verify_password returns for the
\* record's fields, and False when reading them (a value that is no object, a
\* missing key), int or verify_password raises
login_ok(password, record) ==
    IF record.kind # "dict" THEN "false"
    ELSE IF record.salt.kind = "missing" \/ record.hash.kind = "missing" THEN "false"
    ELSE IF record_iters(record) = <<>> THEN "false"
    ELSE IF verify_password(password, record.salt, record.hash, record_iters(record)[1])
            = "true" THEN "true"
    ELSE "false"

\* A value under a name of users.json: kind "dict" is an object with the fields
\* salt, hash and iters, "other" a value that is no object and is truthy,
\* "falsy" a value that "not record" takes for no record (null, an empty object)
NoRecord == [kind |-> "falsy", salt |-> Missing, hash |-> Missing, iters |-> Missing]

NoUsers == [u \in {} |-> NoRecord]

\* users.json is [state, users]: state "dict" is a readable file holding the
\* object users; "absent" no file; "unreadable" a file open(path, "r") refuses,
\* users being the object it holds; "corrupt" a file json.load refuses;
\* "no_access" a folder that refuses the search, so that Path.exists() raises
\* PermissionError
FileOf(state, users) == [state |-> state, users |-> users]

\* load_users: path.exists() is called before the try; open and json.load are
\* inside it and an exception of theirs gives {}
load_users(file) ==
    IF file.state = "no_access" THEN [raises |-> TRUE, users |-> NoUsers]
    ELSE IF file.state = "absent" THEN [raises |-> FALSE, users |-> NoUsers]
    ELSE IF file.state = "dict" THEN [raises |-> FALSE, users |-> file.users]
    ELSE [raises |-> FALSE, users |-> NoUsers]

SaveOutcomes == {"ok", "open_error", "write_error"}

\* save_users(users): open(path, "w") and json.dump; when open raises the file
\* is as it was, when the write raises the file is left cut short
save_users(file, users, out) ==
    IF out = "ok" THEN FileOf("dict", users)
    ELSE IF out = "open_error" THEN file
    ELSE FileOf("corrupt", NoUsers)

\* the accounts of Users exist
AccountsFile ==
    FileOf("dict", [u \in Users |-> hash_password("abc", <<"s1">>, DefaultIterations)])

\* no round trip yet
NoCall == [password |-> "", tried |-> "", record |-> NoRecord, accepted |-> "false"]

-----------------------------------------------------------------------------
(* GUI_principal.py: MainScreen *)

Init ==
    /\ now = ClockStart
    /\ local_off = 0           \* the host's zone is America/Sao_Paulo
    /\ store = <<>>
    /\ user_id = ""
    /\ screen = "login"
    /\ leave_pending = FALSE
    /\ running = TRUE
    /\ current_activity_id = 0
    /\ selected_activity_type = NoneStr
    /\ selected_button = NoneStr
    /\ em_andamento = FALSE
    /\ popup = NoneStr
    /\ auto_event = FALSE
    /\ clock_events = 0
    /\ last_date = [h \in targets |-> <<>>]
    /\ workers = <<>>
    /\ callbacks = <<>>
    /\ sweeps = <<>>
    /\ closing = "no"
    /\ signals_bound = TRUE
    /\ users_json = AccountsFile
    /\ vault_call = NoCall

\* _set_state_em_andamento and _show_active_box only move the controls:
\* start_button.disabled = em_andamento, end_button.disabled = not em_andamento

InsertOutcomes == {"row", "no_data", "error"}

\* acao_iniciar moving the controls to "in progress" before the insert is tried
acao_iniciar_controls_first(resp) ==
    \/ /\ selected_activity_type = NoneStr
       /\ popup' = MsgSelecione
       /\ UNCHANGED <<now, host, sweeps, store, identity, session, scheduler>>
    \/ /\ selected_activity_type # NoneStr
       /\ em_andamento' = TRUE
       /\ \/ /\ resp = "error"
             /\ popup' = MsgFalhaIniciar
             /\ UNCHANGED <<store, current_activity_id>>
          \/ /\ resp # "error"
             /\ Len(store) < MaxRecs
             /\ store' = Append(store, Payload(selected_activity_type, user_id, now))
             /\ current_activity_id' = IF resp = "row" THEN Len(store) + 1 ELSE 0
             /\ UNCHANGED popup
       /\ UNCHANGED <<now, host, sweeps, identity, scheduler, selected_activity_type,
                      selected_button>>

\* acao_iniciar. resp is the insert's answer: the inserted row ("row"), an
\* answer without data ("no_data": iniciar_nova_atividade then returns None), or
\* an error ("error": iniciar_nova_atividade raises; the table is left as it was).
acao_iniciar(resp) ==
    \/ /\ selected_activity_type = NoneStr
       /\ popup' = MsgSelecione
       /\ UNCHANGED <<now, host, sweeps, store, identity, session, scheduler>>
    \/ /\ selected_activity_type # NoneStr
       /\ \/ /\ resp = "error"
             /\ popup' = MsgFalhaIniciar
             /\ UNCHANGED <<store, session>>
          \/ /\ resp # "error"
             /\ Len(store) < MaxRecs
             /\ store' = Append(store, Payload(selected_activity_type, user_id, now))
             /\ current_activity_id' = IF resp = "row" THEN Len(store) + 1 ELSE 0
             /\ em_andamento' = TRUE
             /\ UNCHANGED <<selected_activity_type, selected_button, popup>>
       /\ UNCHANGED <<now, host, sweeps, identity, scheduler>>

\* acao_finalizar without its test of current_activity_id
acao_finalizar_unguarded(out) ==
    /\ LET r == finalizar_atividade(store, current_activity_id, out, now, local_off) IN
       \/ /\ r.ok
          /\ store' = r.store
          /\ popup' = MsgFinalizada
          /\ current_activity_id' = 0
          /\ selected_button' = NoneStr
          /\ selected_activity_type' = NoneStr
          /\ em_andamento' = FALSE
       \/ /\ ~r.ok
          /\ popup' = MsgFalhaFinalizar
          /\ UNCHANGED <<store, session>>
    /\ UNCHANGED <<now, host, sweeps, identity, scheduler>>

\* acao_finalizar resetting current_activity_id before the store is called
acao_finalizar_reset_first(out) ==
    \/ /\ current_activity_id = 0
       /\ popup' = MsgNaoHa
       /\ UNCHANGED <<now, host, sweeps, store, identity, session, scheduler>>
    \/ /\ current_activity_id # 0
       /\ current_activity_id' = 0
       /\ LET r == finalizar_atividade(store, current_activity_id, out, now, local_off) IN
          \/ /\ r.ok
             /\ store' = r.store
             /\ popup' = MsgFinalizada
             /\ selected_button' = NoneStr
             /\ selected_activity_type' = NoneStr
             /\ em_andamento' = FALSE
          \/ /\ ~r.ok
             /\ popup' = MsgFalhaFinalizar
             /\ UNCHANGED <<store, selected_button, selected_activity_type, em_andamento>>
       /\ UNCHANGED <<now, host, sweeps, identity, scheduler>>

\* acao_finalizar. out is the store's answer to finalizar_atividade.
acao_finalizar(out) ==
    \/ /\ current_activity_id = 0
       /\ popup' = MsgNaoHa
       /\ UNCHANGED <<now, host, sweeps, store, identity, session, scheduler>>
    \/ /\ current_activity_id # 0
       /\ LET r == finalizar_atividade(store, current_activity_id, out, now, local_off) IN
          \/ /\ r.ok
             /\ store' = r.store
             /\ popup' = MsgFinalizada
             /\ current_activity_id' = 0
             /\ selected_button' = NoneStr
             /\ selected_activity_type' = NoneStr
             /\ em_andamento' = FALSE
          \/ /\ ~r.ok
             /\ popup' = MsgFalhaFinalizar
             /\ UNCHANGED <<store, session>>
       /\ UNCHANGED <<now, host, sweeps, identity, scheduler>>

\* on_activity_toggled(inst, 'down', activity_type): the user presses a type's
\* ToggleButton (group 'activity': the button that was down is released first)
on_activity_toggled(t) ==
    /\ selected_button' = t
    /\ selected_activity_type' = t
    /\ UNCHANGED <<now, host, sweeps, store, identity, current_activity_id, em_andamento,
                   popup, scheduler>>

\* verificar_atividade_em_andamento, for the lookup's answer: "ok" or "error"
LookupOutcomes == {"ok", "error"}

verificar_atividade_em_andamento(user, out) ==
    LET row == buscar_atividade_em_andamento(store, user) IN
    IF out = "ok" /\ row # <<>>
    THEN /\ current_activity_id' = row[1]
         /\ selected_activity_type' = store[row[1]].tipo_atividade
         /\ selected_button' = store[row[1]].tipo_atividade
         /\ em_andamento' = TRUE
    ELSE /\ em_andamento' = FALSE
         /\ UNCHANGED <<current_activity_id, selected_activity_type, selected_button>>

\* The auto-finalizer's timer is the pair t = <<_auto_finalize_event is not
\* None, interval events scheduled in the Clock>>.

\* stop_auto_finalizer that drops the reference and cancels nothing
stop_auto_finalizer_no_cancel(t) == <<FALSE, t[2]>>

\* start_auto_finalizer
start_auto_finalizer(t) == IF ~t[1] THEN <<TRUE, t[2] + 1>> ELSE t

\* stop_auto_finalizer
stop_auto_finalizer(t) == IF t[1] THEN <<FALSE, t[2] - 1>> ELSE t

\* fazer_login, once verify_password has accepted the password (out is the
\* store's answer to the lookup): user_id is set,
\* the main screen is entered (on_pre_enter starts the auto-finalizer; a
\* transition still running is stopped first, which dispatches its on_leave) and
\* carregar_atividades runs the lookup
fazer_login(u, out) ==
    /\ screen = "login"
    /\ user_id' = u
    /\ screen' = "main"
    /\ leave_pending' = FALSE
    /\ LET left == IF leave_pending
                    THEN stop_auto_finalizer(<<auto_event, clock_events>>)
                    ELSE <<auto_event, clock_events>>
           t == start_auto_finalizer(left)
       IN  auto_event' = t[1] /\ clock_events' = t[2]
    /\ verificar_atividade_em_andamento(u, out)
    /\ UNCHANGED <<now, host, sweeps, store, running, closing, popup, last_date, workers,
                 callbacks>>

\* logout
logout ==
    /\ screen = "main"
    /\ user_id' = ""
    /\ screen' = "login"
    /\ leave_pending' = TRUE
    /\ UNCHANGED <<now, host, sweeps, store, running, closing, session, popup, scheduler>>

\* on_leave -> stop_auto_finalizer, when the transition to the login screen ends
on_leave ==
    /\ leave_pending
    /\ leave_pending' = FALSE
    /\ LET t == stop_auto_finalizer(<<auto_event, clock_events>>)
       IN  auto_event' = t[1] /\ clock_events' = t[2]
    /\ UNCHANGED <<now, host, sweeps, store, user_id, screen, running, closing, session, popup,
                   last_date, workers, callbacks>>

\* _auto_finalize_check without the write of _auto_finalize_last_date
auto_finalize_check_no_mark ==
    LET hhmm == HHMM(now)
        today == DateOf(now)
    IN  /\ IF hhmm \in targets /\ last_date[hhmm] # <<today>> /\ current_activity_id # 0
           THEN workers' = Append(workers,
                            [act_id |-> current_activity_id, time_str |-> hhmm])
           ELSE UNCHANGED workers
        /\ UNCHANGED <<now, host, sweeps, store, identity, session, popup, auto_event,
                       clock_events, last_date, callbacks>>

\* _auto_finalize_check that writes _auto_finalize_last_date only when it
\* dispatches a finalization
auto_finalize_check_mark_if_held ==
    LET hhmm == HHMM(now)
        today == DateOf(now)
    IN  /\ IF hhmm \in targets /\ last_date[hhmm] # <<today>> /\ current_activity_id # 0
           THEN /\ last_date' = [last_date EXCEPT ![hhmm] = <<today>>]
                /\ workers' = Append(workers,
                            [act_id |-> current_activity_id, time_str |-> hhmm])
           ELSE UNCHANGED <<last_date, workers>>
        /\ UNCHANGED <<now, host, sweeps, store, identity, session, popup, auto_event,
                       clock_events, callbacks>>

\* _auto_finalize_check, one tick of the Clock
auto_finalize_check ==
    LET hhmm == HHMM(now)
        today == DateOf(now)
    IN  /\ IF hhmm \in targets /\ last_date[hhmm] # <<today>>
           THEN /\ last_date' = [last_date EXCEPT ![hhmm] = <<today>>]
                /\ IF current_activity_id # 0
                   THEN workers' = Append(workers,
                            [act_id |-> current_activity_id, time_str |-> hhmm])
                   ELSE UNCHANGED workers
           ELSE UNCHANGED <<last_date, workers>>
        /\ UNCHANGED <<now, host, sweeps, store, identity, session, popup, auto_event,
                       clock_events, callbacks>>

RemoveAt(s, i) == SubSeq(s, 1, i - 1) \o SubSeq(s, i + 1, Len(s))

\* worker_finalize, on its own thread: the store call (out is the store's
\* answer), then the callback handed to the Clock
worker_finalize(i, out) ==
    /\ LET r == finalizar_atividade(store, workers[i].act_id, out, now, local_off) IN
         /\ store' = r.store
         /\ callbacks' = Append(callbacks,
                [kind |-> IF r.ok THEN "success" ELSE "error",
                 time_str |-> workers[i].time_str])
    /\ workers' = RemoveAt(workers, i)
    /\ UNCHANGED <<now, host, sweeps, identity, session, popup, auto_event, clock_events,
                   last_date>>

\* _on_auto_finalized_success that keeps current_activity_id
on_auto_finalized_success_keeps_id ==
    /\ popup' = MsgAuto
    /\ selected_button' = NoneStr
    /\ selected_activity_type' = NoneStr
    /\ em_andamento' = FALSE
    /\ UNCHANGED current_activity_id

\* _on_auto_finalized_success
on_auto_finalized_success ==
    /\ popup' = MsgAuto
    /\ current_activity_id' = 0
    /\ selected_button' = NoneStr
    /\ selected_activity_type' = NoneStr
    /\ em_andamento' = FALSE

\* the memory of a process that has just been launched, or is gone:
\* MainScreen.__init__ and the App's defaults, and no thread
fresh_memory ==
    /\ user_id' = ""
    /\ screen' = "login"
    /\ leave_pending' = FALSE
    /\ current_activity_id' = 0
    /\ selected_activity_type' = NoneStr
    /\ selected_button' = NoneStr
    /\ em_andamento' = FALSE
    /\ popup' = NoneStr
    /\ auto_event' = FALSE
    /\ clock_events' = 0
    /\ last_date' = [h \in targets |-> <<>>]
    /\ workers' = <<>>
    /\ callbacks' = <<>>
    /\ sweeps' = <<>>

\* the Clock runs the callback scheduled first. The error callback is
\* lambda _dt: self.show_error(f"... {e}"), made inside "except Exception as e"
\* and run after that clause has ended and unbound e: building the message
\* raises NameError before show_error is called. No exception handler is
\* registered, so the error leaves the Clock's tick, the main loop ends and
\* main() exits with status 1; the daemon threads end with the process.
run_callback ==
    /\ callbacks # <<>>
    /\ \/ /\ Head(callbacks).kind = "success"
          /\ callbacks' = Tail(callbacks)
          /\ on_auto_finalized_success
          /\ UNCHANGED <<now, host, sweeps, store, identity, auto_event, clock_events,
                         last_date, workers>>
       \/ /\ Head(callbacks).kind = "error"
          /\ running' = FALSE
          /\ closing' = "done"
          /\ fresh_memory
          /\ UNCHANGED <<now, host, store>>

-----------------------------------------------------------------------------
(* GUI_login.py: LoginScreen *)

\* show_error(message) and _show_info(message): a popup is opened
show_error(message) ==
    /\ popup' = message
    /\ UNCHANGED <<now, host, sweeps, store, identity, session, scheduler>>

\* An exception that leaves a handler of the main loop: no exception handler is
\* registered, app.run() raises, main() prints it and calls sys.exit(1); the
\* daemon threads end with the process.
fatal_error ==
    /\ running' = FALSE
    /\ closing' = "done"
    /\ fresh_memory
    /\ UNCHANGED <<now, host, store>>

\* fazer_login(username, password) that sets app.user_id before the password is
\* verified
LoginScreen_fazer_login_user_first(username_t, password_t, out) ==
    LET username == strip(username_t)
        password == strip(password_t)
        loaded == load_users(users_json)
    IN  IF username = "" \/ password = "" THEN show_error(MsgPreencha)
        ELSE IF loaded.raises THEN fatal_error
        ELSE IF username \notin DOMAIN loaded.users \/ loaded.users[username].kind = "falsy"
        THEN show_error(MsgNaoEncontrado)
        ELSE LET ok == login_ok(password, loaded.users[username]) IN
             IF ok = "raise" THEN fatal_error
             ELSE IF ok = "true" THEN fazer_login(username, out)
             ELSE /\ popup' = MsgIncorretos
                  /\ user_id' = username
                  /\ UNCHANGED <<now, host, sweeps, store, screen, leave_pending, running,
                                 closing, session, scheduler>>

\* fazer_login(username, password), what was typed in the two fields; out is
\* the store's answer to the lookup of carregar_atividades. load_users and
\* users.get are called outside any try: what they raise leaves the handler.
LoginScreen_fazer_login(username_t, password_t, out) ==
    LET username == strip(username_t)
        password == strip(password_t)
        loaded == load_users(users_json)
    IN  IF username = "" \/ password = "" THEN show_error(MsgPreencha)
        ELSE IF loaded.raises THEN fatal_error
        ELSE IF username \notin DOMAIN loaded.users \/ loaded.users[username].kind = "falsy"
        THEN show_error(MsgNaoEncontrado)
        ELSE LET ok == login_ok(password, loaded.users[username]) IN
             IF ok = "raise" THEN fatal_error
             ELSE IF ok = "true" THEN fazer_login(username, out)
             ELSE show_error(MsgIncorretos)

\* users with user |-> rec
WithUser(users, user, rec) ==
    [u \in DOMAIN users \cup {user} |-> IF u = user THEN rec ELSE users[u]]

\* on_create without its test of "user in users"
on_create_overwrites(user_t, pwd_t, conf_t, salt, out) ==
    LET user == strip(user_t)
        pwd == strip(pwd_t)
        conf == strip(conf_t)
        loaded == load_users(users_json)
    IN  IF user = "" \/ pwd = "" THEN show_error(MsgPreenchaUsuario)
        ELSE IF pwd # conf THEN show_error(MsgNaoCoincidem)
        ELSE IF loaded.raises THEN fatal_error
        ELSE /\ users_json' = save_users(users_json,
                    WithUser(loaded.users, user, hash_password(pwd, salt, DefaultIterations)),
                    out)
             /\ popup' = IF out = "ok" THEN MsgContaCriada ELSE MsgFalhaSalvar
             /\ UNCHANGED <<now, local_off, signals_bound, vault_call, sweeps, store,
                            identity, session, scheduler>>

\* criar_conta_popup's on_create, for what was typed in the three fields, the
\* salt hash_password draws and the outcome of save_users
on_create(user_t, pwd_t, conf_t, salt, out) ==
    LET user == strip(user_t)
        pwd == strip(pwd_t)
        conf == strip(conf_t)
        loaded == load_users(users_json)
    IN  IF user = "" \/ pwd = "" THEN show_error(MsgPreenchaUsuario)
        ELSE IF pwd # conf THEN show_error(MsgNaoCoincidem)
        ELSE IF loaded.raises THEN fatal_error
        ELSE IF user \in DOMAIN loaded.users THEN show_error(MsgJaExiste)
        ELSE /\ users_json' = save_users(users_json,
                    WithUser(loaded.users, user, hash_password(pwd, salt, DefaultIterations)),
                    out)
             /\ popup' = IF out = "ok" THEN MsgContaCriada ELSE MsgFalhaSalvar
             /\ UNCHANGED <<now, local_off, signals_bound, vault_call, sweeps, store,
                            identity, session, scheduler>>

\* hash_password(password, salt, iterations), then verify_password(tried, ...)
\* with the salt, the hash and the iteration count of the record it returned
hash_then_verify(password, tried, salt, iterations) ==
    /\ LET record == hash_password(password, salt, iterations) IN
       vault_call' = [password |-> password, tried |-> tried, record |-> record,
                      accepted |-> verify_password(tried, record.salt, record.hash,
                                                   record_iters(record)[1])]
    /\ UNCHANGED <<now, local_off, signals_bound, users_json, sweeps, store, identity,
                   session, popup, scheduler>>

-----------------------------------------------------------------------------
(* main.py and handle_db.py: the sweep of the rows left open *)

\* A thread running finalizar_atividades_em_andamento: phase "list" before its
\* select, "loop" after it; todo holds the ids of the list the loop has not
\* reached yet and sucesso is the loop's counter. listed, tried and closed keep
\* what the thread did: the ids the select gave, the ids finalizar_atividade
\* was called for, and the ids for which it returned without raising. daemon
\* is the flag the thread was created with.
NewSweep(daemon) ==
    [phase |-> "list", listed |-> {}, todo |-> {}, tried |-> {}, closed |-> {},
     sucesso |-> 0, daemon |-> daemon]

\* the thread of _finalize_ativos_threaded created with daemon=False
start_sweep_no_daemon(sw) == Append(sw, NewSweep(FALSE))

\* _finalize_ativos_threaded, its thread: Thread(target=..., daemon=True).start()
start_daemon_sweep(sw) == Append(sw, NewSweep(TRUE))

\* _finalize_ativos_threaded: a daemon thread is started for the sweep and the
\* caller goes on
finalize_ativos_threaded ==
    /\ sweeps' = start_daemon_sweep(sweeps)
    /\ UNCHANGED <<now, host, store, identity, session, popup, scheduler>>

\* the select of the sweep with .eq("user_id", ...) of the logged-in user
sweep_list_of_user(k, out) ==
    /\ sweeps[k].phase = "list"
    /\ IF out = "ok"
       THEN sweeps' = [sweeps EXCEPT
                ![k].phase = "loop",
                ![k].listed = OpenIds(store, user_id),
                ![k].todo = OpenIds(store, user_id)]
       ELSE sweeps' = RemoveAt(sweeps, k)
    /\ UNCHANGED <<now, host, store, identity, session, popup, scheduler>>

ListOutcomes == {"ok", "error"}

\* finalizar_atividades_em_andamento, the select of the ids of the rows with fim
\* null, of every user; when the select errors the function returns 0
sweep_list(k, out) ==
    /\ sweeps[k].phase = "list"
    /\ IF out = "ok"
       THEN sweeps' = [sweeps EXCEPT
                ![k].phase = "loop",
                ![k].listed = {i \in DOMAIN store : store[i].fim = <<>>},
                ![k].todo = {i \in DOMAIN store : store[i].fim = <<>>}]
       ELSE sweeps' = RemoveAt(sweeps, k)
    /\ UNCHANGED <<now, host, store, identity, session, popup, scheduler>>

\* the loop's body that counts a record whether its close succeeded or not
sweep_close_counts_all(k, id, out) ==
    /\ sweeps[k].phase = "loop"
    /\ id \in sweeps[k].todo
    /\ LET r == finalizar_atividade(store, id, out, now, local_off) IN
       /\ store' = r.store
       /\ sweeps' = [sweeps EXCEPT
                ![k].todo = @ \ {id},
                ![k].tried = @ \cup {id},
                ![k].closed = IF r.ok THEN @ \cup {id} ELSE @,
                ![k].sucesso = @ + 1]
    /\ UNCHANGED <<now, host, identity, session, popup, scheduler>>

\* the loop's body that resets the session state when it closes the held row
sweep_close_resets_session(k, id, out) ==
    /\ sweeps[k].phase = "loop"
    /\ id \in sweeps[k].todo
    /\ LET r == finalizar_atividade(store, id, out, now, local_off) IN
       /\ store' = r.store
       /\ sweeps' = [sweeps EXCEPT
                ![k].todo = @ \ {id},
                ![k].tried = @ \cup {id},
                ![k].closed = IF r.ok THEN @ \cup {id} ELSE @,
                ![k].sucesso = IF r.ok THEN @ + 1 ELSE @]
       /\ IF r.ok /\ id = current_activity_id
          THEN /\ current_activity_id' = 0
               /\ em_andamento' = FALSE
               /\ UNCHANGED <<selected_activity_type, selected_button>>
          ELSE UNCHANGED session
    /\ UNCHANGED <<now, host, identity, popup, scheduler>>

\* finalizar_atividades_em_andamento, one turn of the loop: finalizar_atividade
\* for the next id (out is the store's answer); sucesso counts the calls that
\* returned, an exception is logged and the loop goes on. The select has no
\* ORDER BY: the ids come in any order.
sweep_close(k, id, out) ==
    /\ sweeps[k].phase = "loop"
    /\ id \in sweeps[k].todo
    /\ LET r == finalizar_atividade(store, id, out, now, local_off) IN
       /\ store' = r.store
       /\ sweeps' = [sweeps EXCEPT
                ![k].todo = @ \ {id},
                ![k].tried = @ \cup {id},
                ![k].closed = IF r.ok THEN @ \cup {id} ELSE @,
                ![k].sucesso = IF r.ok THEN @ + 1 ELSE @]
    /\ UNCHANGED <<now, host, identity, session, popup, scheduler>>

\* finalizar_atividades_em_andamento, the end of the loop: sucesso is returned
\* and the thread ends
sweep_return(k) ==
    /\ sweeps[k].phase = "loop"
    /\ sweeps[k].todo = {}
    /\ sweeps' = RemoveAt(sweeps, k)
    /\ UNCHANGED <<now, host, store, identity, session, popup, scheduler>>

-----------------------------------------------------------------------------
(* main.py: the way out of main() *)

\* closing is "no" while main() is in app.run() with nothing closing, "window"
\* while _on_request_close waits in _finalize_ativos_blocking, "interrupt" while
\* the except KeyboardInterrupt clause waits in it, "exiting" once sys.exit was
\* called, "atexit" once the atexit handlers have run, "done" when the process
\* is gone.
Waits == {"window", "interrupt"}

\* a sweep thread that is no daemon is alive
BlockingAlive == \E k \in DOMAIN sweeps : ~sweeps[k].daemon

\* _finalize_ativos_blocking that starts a daemon thread and joins nothing
finalize_ativos_blocking_no_wait(caller) ==
    /\ sweeps' = Append(sweeps, NewSweep(TRUE))
    /\ closing' = "exiting"
    /\ running' = FALSE
    /\ UNCHANGED <<now, host, store, user_id, screen, leave_pending, session, popup,
                   scheduler>>

\* _finalize_ativos_blocking(timeout), up to its join: a thread that is no
\* daemon is started for the sweep and the caller waits in t.join(timeout). The
\* caller is _on_request_close ("window", 5 s) or main()'s except
\* KeyboardInterrupt clause ("interrupt", 3 s); in both the main loop handles no
\* further event.
finalize_ativos_blocking(caller) ==
    /\ sweeps' = Append(sweeps, NewSweep(FALSE))
    /\ closing' = caller
    /\ running' = FALSE
    /\ UNCHANGED <<now, host, store, user_id, screen, leave_pending, session, popup,
                   scheduler>>

\* the rest of the caller of _finalize_ativos_blocking: _on_request_close
\* returns False, the window closes, the App stops and the on_stop main()
\* wrapped calls _finalize_ativos_threaded, app.run() returns and main() calls
\* sys.exit(0); the except KeyboardInterrupt clause falls through to sys.exit(0)
leave_main ==
    /\ closing' = "exiting"
    /\ sweeps' = IF closing = "window" THEN start_daemon_sweep(sweeps) ELSE sweeps
    /\ UNCHANGED <<now, host, store, user_id, screen, leave_pending, running, session, popup,
                   scheduler>>

\* t.join() without a timeout: it returns when the thread has ended
join_returns_no_timeout ==
    /\ closing \in Waits
    /\ ~BlockingAlive
    /\ leave_main

\* t.join(timeout=timeout) returns, the thread having ended or the timeout
\* having elapsed with the thread alive; the thread is left as it is
join_returns ==
    /\ closing \in Waits
    /\ leave_main

\* sys.exit: the interpreter first waits for the threads that are no daemons
\* (threading._shutdown), then runs the atexit handlers, here
\* _finalize_ativos_threaded
run_atexit ==
    /\ closing = "exiting"
    /\ ~BlockingAlive
    /\ closing' = "atexit"
    /\ sweeps' = start_daemon_sweep(sweeps)
    /\ UNCHANGED <<now, host, store, user_id, screen, leave_pending, running, session, popup,
                   scheduler>>

\* the interpreter is finalized and the process ends; its daemon threads end
\* with it
process_end ==
    /\ closing = "atexit"
    /\ closing' = "done"
    /\ fresh_memory
    /\ UNCHANGED <<now, host, store, running>>

-----------------------------------------------------------------------------
(* The environment: the user, the clock, the threads, the process *)

\* the buttons of the main screen answer only while it is shown and no popup
\* (a modal view) covers it, and a disabled button answers no touch
PressIniciar == running /\ screen = "main" /\ popup = NoneStr /\ ~em_andamento
                /\ \E resp \in InsertOutcomes : acao_iniciar(resp)

PressFinalizar == running /\ screen = "main" /\ popup = NoneStr /\ em_andamento
                  /\ \E out \in FinalizeOutcomes : acao_finalizar(out)

PressActivity ==
    /\ running
    /\ screen = "main"
    /\ popup = NoneStr
    /\ \E t \in activity_types :
         /\ ~(em_andamento /\ t # selected_button)
         /\ on_activity_toggled(t)

Login == running /\ popup = NoneStr
         /\ \E u \in Users, out \in LookupOutcomes : fazer_login(u, out)

Logout == running /\ popup = NoneStr /\ logout

\* the user dismisses the popup
Dismiss ==
    /\ running
    /\ popup # NoneStr
    /\ popup' = NoneStr
    /\ UNCHANGED <<now, host, sweeps, store, identity, session, scheduler>>

OnLeave == running /\ on_leave

\* the Clock fires an interval event it holds
Tick == running /\ clock_events > 0 /\ auto_finalize_check

Worker == running /\ \E i \in DOMAIN workers, out \in FinalizeOutcomes : worker_finalize(i, out)

Callback == running /\ run_callback

Advance ==
    /\ now < ClockStart + MaxTime
    /\ now' = now + 1
    /\ UNCHANGED <<host, sweeps, store, identity, session, popup, scheduler>>

\* the process is launched again, after it was killed if it was still running;
\* the table and the clock go on
Restart ==
    /\ running' = TRUE
    /\ closing' = "no"
    /\ fresh_memory
    /\ UNCHANGED <<now, host, store>>

Next ==
    \/ Login
    \/ Logout
    \/ OnLeave
    \/ Dismiss
    \/ PressActivity
    \/ PressIniciar
    \/ PressFinalizar
    \/ Tick
    \/ Worker
    \/ Callback
    \/ Advance
    \/ Restart

Spec == Init /\ [][Next]_vars

\* hosts whose zone is not handle_db.TIMEZONE: local_off is the host's offset
\* from UTC minus Sao Paulo's (UTC-3), in half minutes: a host on UTC-5
\* (America/Rio_Branco), on UTC-3, on UTC
LocalOffsets == {0 - (2 * 60 * 2), 0, 3 * 60 * 2}

InitZones ==
    /\ now = ClockStart
    /\ local_off \in LocalOffsets
    /\ store = <<>>
    /\ user_id = ""
    /\ screen = "login"
    /\ leave_pending = FALSE
    /\ running = TRUE
    /\ current_activity_id = 0
    /\ selected_activity_type = NoneStr
    /\ selected_button = NoneStr
    /\ em_andamento = FALSE
    /\ popup = NoneStr
    /\ auto_event = FALSE
    /\ clock_events = 0
    /\ last_date = [h \in targets |-> <<>>]
    /\ workers = <<>>
    /\ callbacks = <<>>
    /\ sweeps = <<>>
    /\ closing = "no"
    /\ signals_bound = TRUE
    /\ users_json = AccountsFile
    /\ vault_call = NoCall

SpecZones == InitZones /\ [][Next]_vars

\* one process, from its launch on: one MainScreen instance
NextInstance ==
    \/ Login
    \/ Logout
    \/ OnLeave
    \/ Dismiss
    \/ PressActivity
    \/ PressIniciar
    \/ PressFinalizar
    \/ Tick
    \/ Worker
    \/ Callback
    \/ Advance

SpecInstance == Init /\ [][NextInstance]_vars

\* The store is available: every call is answered without an error, a lookup
\* with the rows, an insert with the inserted row. The process is not killed.
\* A thread that was started runs, and the Clock, which runs in every frame of
\* the main loop, calls what was handed to schedule_once.
LoginAvailable == running /\ popup = NoneStr /\ \E u \in Users : fazer_login(u, "ok")

PressIniciarAvailable == running /\ screen = "main" /\ popup = NoneStr /\ ~em_andamento
                         /\ acao_iniciar("row")

PressFinalizarAvailable == running /\ screen = "main" /\ popup = NoneStr /\ em_andamento
                           /\ acao_finalizar("ok")

WorkerAvailable == running /\ \E i \in DOMAIN workers : worker_finalize(i, "ok")

NextAvailable ==
    \/ LoginAvailable
    \/ Logout
    \/ OnLeave
    \/ Dismiss
    \/ PressActivity
    \/ PressIniciarAvailable
    \/ PressFinalizarAvailable
    \/ Tick
    \/ WorkerAvailable
    \/ Callback
    \/ Advance

SpecAvailable ==
    /\ Init
    /\ [][NextAvailable]_vars
    /\ WF_vars(WorkerAvailable)
    /\ WF_vars(Callback)

\* start_auto_finalizer and stop_auto_finalizer called at any time, any number
\* of times, next to what the program does with the store available
call_start_auto_finalizer ==
    /\ LET t == start_auto_finalizer(<<auto_event, clock_events>>)
       IN  auto_event' = t[1] /\ clock_events' = t[2]
    /\ UNCHANGED <<now, host, sweeps, store, identity, session, popup, last_date, workers,
                   callbacks>>

call_stop_auto_finalizer ==
    /\ LET t == stop_auto_finalizer(<<auto_event, clock_events>>)
       IN  auto_event' = t[1] /\ clock_events' = t[2]
    /\ UNCHANGED <<now, host, sweeps, store, identity, session, popup, last_date, workers,
                   callbacks>>

CallStart == running /\ call_start_auto_finalizer

CallStop == running /\ call_stop_auto_finalizer

NextCalls ==
    \/ LoginAvailable
    \/ Logout
    \/ OnLeave
    \/ Dismiss
    \/ PressActivity
    \/ PressIniciarAvailable
    \/ PressFinalizarAvailable
    \/ Tick
    \/ WorkerAvailable
    \/ Callback
    \/ Advance
    \/ CallStart
    \/ CallStop

SpecCalls == Init /\ [][NextCalls]_vars

\* SIGINT or SIGTERM reaches the running process: the handler main() installed
\* calls _finalize_ativos_threaded and returns, and the main loop goes on
Signal == running /\ signals_bound /\ Len(sweeps) < MaxSweeps /\ finalize_ativos_threaded

SweepList == \E k \in DOMAIN sweeps, out \in ListOutcomes : sweep_list(k, out)

SweepClose ==
    \E k \in DOMAIN sweeps, id \in DOMAIN store, out \in FinalizeOutcomes :
        sweep_close(k, id, out)

SweepReturn == \E k \in DOMAIN sweeps : sweep_return(k)

\* the sweep next to the logins and logouts, the interactive starts and stops
\* (their store calls answered) and the relaunches of the process, all within
\* one half minute of the clock
NextSweep ==
    \/ LoginAvailable
    \/ Logout
    \/ OnLeave
    \/ Dismiss
    \/ PressActivity
    \/ PressIniciarAvailable
    \/ PressFinalizarAvailable
    \/ Restart
    \/ Signal
    \/ SweepList
    \/ SweepClose
    \/ SweepReturn

SpecSweep == Init /\ [][NextSweep]_vars

\* The user closes the window: Window dispatches on_request_close
RequestClose == running /\ finalize_ativos_blocking("window")

\* SIGINT reaches a process whose main() could not install its handlers:
\* KeyboardInterrupt is raised in app.run() and caught by main()
KeyboardInterrupt == running /\ ~signals_bound /\ finalize_ativos_blocking("interrupt")

\* the main thread goes on from where it is
JoinReturns == closing \in Waits /\ join_returns

RunAtexit == closing = "exiting" /\ run_atexit

ProcessEnd == closing = "atexit" /\ process_end

\* the rows an earlier run of the program, of another user, may have left open
Orphans == {<<>>, <<Payload("Documentacao", "bia", ClockStart)>>}

\* main() may or may not have installed its signal handlers
InitShutdown ==
    /\ now = ClockStart
    /\ local_off = 0
    /\ store \in Orphans
    /\ user_id = ""
    /\ screen = "login"
    /\ leave_pending = FALSE
    /\ running = TRUE
    /\ current_activity_id = 0
    /\ selected_activity_type = NoneStr
    /\ selected_button = NoneStr
    /\ em_andamento = FALSE
    /\ popup = NoneStr
    /\ auto_event = FALSE
    /\ clock_events = 0
    /\ last_date = [h \in targets |-> <<>>]
    /\ workers = <<>>
    /\ callbacks = <<>>
    /\ sweeps = <<>>
    /\ closing = "no"
    /\ signals_bound \in BOOLEAN
    /\ users_json = AccountsFile
    /\ vault_call = NoCall

\* The ways out of main() of one run of the program, next to the logins, the
\* interactive starts (their store calls answered) and the signals. A store call of a sweep
\* may be answered, fail, or never return: the select and the closes of a sweep
\* have no fairness. The threads are scheduled: a sweep whose loop is over
\* returns, and the main thread goes on: a join with a timeout returns, sys.exit
\* runs the atexit handlers once no thread that is no daemon is alive, and the
\* process ends.
NextShutdown ==
    \/ LoginAvailable
    \/ PressActivity
    \/ PressIniciarAvailable
    \/ Signal
    \/ RequestClose
    \/ KeyboardInterrupt
    \/ JoinReturns
    \/ RunAtexit
    \/ ProcessEnd
    \/ SweepList
    \/ SweepClose
    \/ SweepReturn

SpecShutdown ==
    /\ InitShutdown
    /\ [][NextShutdown]_vars
    /\ WF_vars(JoinReturns)
    /\ WF_vars(RunAtexit)
    /\ WF_vars(ProcessEnd)
    /\ WF_vars(SweepReturn)

\* The store answers within the grace period: every store call of a sweep is
\* answered without an error, and the join returns with its thread ended,
\* before its timeout.
JoinInTime == closing \in Waits /\ ~BlockingAlive /\ join_returns

SweepListAvailable == \E k \in DOMAIN sweeps : sweep_list(k, "ok")

SweepCloseAvailable == \E k \in DOMAIN sweeps, id \in DOMAIN store : sweep_close(k, id, "ok")

NextGrace ==
    \/ LoginAvailable
    \/ PressActivity
    \/ PressIniciarAvailable
    \/ Signal
    \/ RequestClose
    \/ KeyboardInterrupt
    \/ JoinInTime
    \/ RunAtexit
    \/ ProcessEnd
    \/ SweepListAvailable
    \/ SweepCloseAvailable
    \/ SweepReturn

SpecGrace == InitShutdown /\ [][NextGrace]_vars

\* The same, with the process's own steps scheduled: every store call of a
\* sweep is answered and its thread goes on to its return, the join returns,
\* sys.exit runs the atexit handlers and the process ends. What the user and the
\* operating system do (a login, a press, the window's close, a signal) has no
\* fairness.
SpecSignal ==
    /\ InitShutdown
    /\ [][NextGrace]_vars
    /\ WF_vars(SweepListAvailable)
    /\ WF_vars(SweepCloseAvailable)
    /\ WF_vars(SweepReturn)
    /\ WF_vars(JoinInTime)
    /\ WF_vars(RunAtexit)
    /\ WF_vars(ProcessEnd)

\* The credential vault: the user types a name and a password on the login
\* screen and presses "Entrar", or opens the popup "Criar Conta", types and
\* presses "Criar"
LoginTyped ==
    /\ running
    /\ popup = NoneStr
    /\ \E username_t \in TypedUsers, password_t \in TypedPasswords, out \in LookupOutcomes :
         LoginScreen_fazer_login(username_t, password_t, out)

CreateAccount ==
    /\ running
    /\ screen = "login"
    /\ popup = NoneStr
    /\ \E user_t \in TypedUsers, pwd_t \in TypedPasswords, salt \in Salts,
          out \in SaveOutcomes :
         \E conf_t \in {pwd_t, strip(pwd_t), ""} :
            on_create(user_t, pwd_t, conf_t, salt, out)

\* records a users.json may hold: records hash_password made, and records that
\* are malformed: a field missing, a text base64 or int refuses, a salt or a
\* hash that decodes to other bytes, a value that is no object
GoodRecord == hash_password("abc", <<"s1">>, DefaultIterations)

SampleRecords ==
    { GoodRecord,
      hash_password("xyz", <<"s2">>, 1),
      [GoodRecord EXCEPT !.iters = Missing],
      [GoodRecord EXCEPT !.salt = Missing],
      [GoodRecord EXCEPT !.salt = Refused],
      [GoodRecord EXCEPT !.salt = b64encode(<<>>)],
      [GoodRecord EXCEPT !.hash = Missing],
      [GoodRecord EXCEPT !.hash = Refused],
      [GoodRecord EXCEPT !.hash = b64encode(<<>>)],
      [GoodRecord EXCEPT !.iters = Refused],
      [GoodRecord EXCEPT !.iters = Field("int", <<0>>)],
      [NoRecord EXCEPT !.kind = "other"],
      NoRecord }

VaultFiles ==
    {FileOf(st, NoUsers) : st \in {"absent", "unreadable", "corrupt", "no_access"}}
        \cup {FileOf("dict", f) : f \in UNION {[S -> SampleRecords] : S \in SUBSET Users}}
        \cup {FileOf("unreadable", f) : f \in UNION {[S -> {GoodRecord}] : S \in SUBSET Users}}

InitVault ==
    /\ now = ClockStart
    /\ local_off = 0
    /\ store = <<>>
    /\ user_id = ""
    /\ screen = "login"
    /\ leave_pending = FALSE
    /\ running = TRUE
    /\ current_activity_id = 0
    /\ selected_activity_type = NoneStr
    /\ selected_button = NoneStr
    /\ em_andamento = FALSE
    /\ popup = NoneStr
    /\ auto_event = FALSE
    /\ clock_events = 0
    /\ last_date = [h \in targets |-> <<>>]
    /\ workers = <<>>
    /\ callbacks = <<>>
    /\ sweeps = <<>>
    /\ closing = "no"
    /\ signals_bound = TRUE
    /\ users_json \in VaultFiles
    /\ vault_call = NoCall

NextVault ==
    \/ LoginTyped
    \/ CreateAccount
    \/ Dismiss
    \/ Logout
    \/ OnLeave

SpecVault == InitVault /\ [][NextVault]_vars

\* hash_password and verify_password, called for every password, salt and
\* iteration count
RoundTrip ==
    \E password, tried \in Passwords, salt \in Salts, iterations \in IterCounts :
        hash_then_verify(password, tried, salt, iterations)

NextHash == RoundTrip

SpecHash == Init /\ [][NextHash]_vars

\* One login session at the checkpoint: the starts are answered, the store
\* calls of the workers are answered or fail. While the main loop runs, the
\* Clock fires the interval event it holds.
NextTicks ==
    \/ LoginAvailable
    \/ Dismiss
    \/ PressActivity
    \/ PressIniciarAvailable
    \/ Tick
    \/ Worker
    \/ Callback
    \/ Advance

SpecTicks == Init /\ [][NextTicks]_vars /\ WF_vars(Tick)

-----------------------------------------------------------------------------
(* The session state machine: claims C1 to C10 *)

Open(i) == store[i].fim = <<>>

\* C1: at most one of the rows this MainScreen instance created has fim absent
\* (under SpecInstance the table starts empty and the process is never
\* relaunched, so every row is one this instance created).
C1_OneOpenPerInstance == Cardinality({i \in DOMAIN store : Open(i)}) <= 1

\* C2: a start while a session is held is rejected: no row is created and
\* current_activity_id stays as it was.
C2_StartWhileActiveRejected ==
    [][(current_activity_id # 0 /\ \E resp \in InsertOutcomes : acao_iniciar(resp))
        => (store' = store /\ current_activity_id' = current_activity_id)]_vars

\* C3: a stop while no session is held reports an error, calls the store for
\* nothing and leaves the state Idle.
C3_StopWhileIdleRejected ==
    [][(current_activity_id = 0 /\ \E out \in FinalizeOutcomes : acao_finalizar(out))
        => (popup' = MsgNaoHa /\ store' = store /\ UNCHANGED session)]_vars

C3_Witness == popup = MsgNaoHa /\ current_activity_id = 0 /\ em_andamento

\* C4: a start from Idle that the store answers without an error ends Active,
\* holding the id of the row the store created, never with the controls "in
\* progress" and no id held.
C4_StartHoldsCreatedId ==
    [][(current_activity_id = 0 /\ Len(store') > Len(store)
          /\ \E resp \in InsertOutcomes : acao_iniciar(resp))
        => (current_activity_id' = Len(store') /\ em_andamento')]_vars

\* C5: a start whose insert errors keeps the session state as it was: Idle
\* stays Idle, nothing of the session is kept.
C5_StartErrorKeepsIdle ==
    [][acao_iniciar("error") => UNCHANGED session]_vars

C5_Witness == popup = MsgFalhaIniciar /\ current_activity_id = 0 /\ ~em_andamento

\* C6: a stop in Active that the store answers sets fim and horas_trabalhadas
\* of the held row and leaves the state Idle.
C6_StopClosesHeldRow ==
    [][(current_activity_id # 0 /\ acao_finalizar("ok"))
        => /\ store'[current_activity_id].fim = <<now>>
           /\ store'[current_activity_id].horas_trabalhadas # <<>>
           /\ current_activity_id' = 0
           /\ ~em_andamento']_vars

C6_Witness ==
    /\ popup = MsgFinalizada
    /\ current_activity_id = 0
    /\ \E i \in DOMAIN store : ~Open(i) /\ store[i].horas_trabalhadas # <<>>

\* C7: a stop in Active whose store call errors keeps the state Active with the
\* same id held.
C7_StopErrorKeepsActive ==
    [][(current_activity_id # 0
          /\ \E out \in FinalizeOutcomes \ {"ok"} : acao_finalizar(out))
        => (UNCHANGED session /\ popup' = MsgFalhaFinalizar)]_vars

C7_Witness == popup = MsgFalhaFinalizar /\ current_activity_id # 0 /\ em_andamento

\* C8: a login whose lookup the store answers ends Active, holding the id of the
\* user's open row, when there is one, and Idle (no id held) when there is none.
C8_LoginSetsState ==
    [][\A u \in Users :
          fazer_login(u, "ok") =>
            current_activity_id' =
                IF buscar_atividade_em_andamento(store, u) = <<>> THEN 0
                ELSE buscar_atividade_em_andamento(store, u)[1]]_vars

\* C9: each user owns at most one row with fim absent.
C9_OneOpenPerUser == \A u \in Users : Cardinality(OpenIds(store, u)) <= 1

\* C10: once fim is set, a row is left as it is.
C10_ClosedRowFrozen ==
    [][\A i \in DOMAIN store : ~Open(i) => store'[i] = store[i]]_vars

-----------------------------------------------------------------------------
(* The rows' content: claims C11 and C12 *)

\* C11: in every state of the table, a row has fim set if and only if it has
\* horas_trabalhadas set.
C11_FimIffHoras ==
    \A i \in DOMAIN store : (store[i].fim # <<>>) <=> (store[i].horas_trabalhadas # <<>>)

C11_Witness ==
    /\ \E i \in DOMAIN store : store[i].fim # <<>> /\ store[i].horas_trabalhadas # <<>>
    /\ \E i \in DOMAIN store : store[i].fim = <<>> /\ store[i].horas_trabalhadas = <<>>

\* C12: the horas_trabalhadas of a closed row is the time elapsed from its
\* inicio (the instant of the start) to its fim, and is not negative, whatever
\* the zone of the host that read inicio back from the table.
C12_HorasIsElapsed ==
    \A i \in DOMAIN store :
        store[i].fim # <<>> =>
            /\ store[i].horas_trabalhadas = <<store[i].fim[1] - store[i].inicio>>
            /\ store[i].horas_trabalhadas[1] >= 0

-----------------------------------------------------------------------------
(* The auto-finalizer: claims C13 to C18 *)

\* C13: for each checkpoint and each date, the tick dispatches finalization at
\* most once. A worker is dispatched only by a tick that finds the checkpoint of
\* the current minute not fired today and marks it fired today; and while the
\* process runs, a checkpoint marked fired today stays marked (the clock never
\* goes back to an earlier date): a second dispatch for the same checkpoint and
\* date cannot follow.
C13_CheckpointFiresOnce ==
    [][/\ Len(workers') > Len(workers) =>
            /\ HHMM(now) \in targets
            /\ last_date[HHMM(now)] # <<DateOf(now)>>
            /\ last_date'[HHMM(now)] = <<DateOf(now)>>
            /\ Len(workers') = Len(workers) + 1
       /\ \A h \in targets :
            (running' /\ last_date[h] = <<DateOf(now')>>) => last_date'[h] = last_date[h]
      ]_vars

\* a session is held in a later half minute of a checkpoint minute that has
\* fired today, with nothing in flight: the tick that comes dispatches nothing
C13_Witness ==
    /\ running /\ clock_events > 0
    /\ now > ClockStart
    /\ HHMM(now) \in targets
    /\ last_date[HHMM(now)] = <<DateOf(now)>>
    /\ current_activity_id # 0
    /\ workers = <<>> /\ callbacks = <<>>

\* C14: with the store available, when a tick in a checkpoint minute that has
\* not fired today finds a session held (the tick has started the worker for
\* its id), the session's row is eventually closed in the table and the state
\* machine eventually is Idle.
C14_CheckpointClosesSession ==
    \A id \in 1..MaxRecs :
        /\ (\E i \in DOMAIN workers : workers[i].act_id = id)
              ~> (id \in DOMAIN store /\ store[id].fim # <<>>)
        /\ (\E i \in DOMAIN workers : workers[i].act_id = id)
              ~> (current_activity_id = 0 /\ ~em_andamento)

C14_Witness ==
    /\ popup = MsgAuto
    /\ current_activity_id = 0 /\ ~em_andamento
    /\ last_date[HHMM(now)] = <<DateOf(now)>>
    /\ \E i \in DOMAIN store : store[i].fim # <<>>

\* C15: when the store call of a scheduled finalization fails, the worker leaves
\* the session state alone and its callback opens the error popup with the state
\* still Active, the same id held.
C15_ScheduledFailureKeepsActive ==
    [][/\ (\E i \in DOMAIN workers, out \in FinalizeOutcomes \ {"ok"} :
              worker_finalize(i, out)) => UNCHANGED session
       /\ (callbacks # <<>> /\ Head(callbacks).kind = "error" /\ run_callback)
              => (UNCHANGED session /\ popup' = MsgFalhaAuto)
      ]_vars

\* C16: stop_auto_finalizer, called in any state and any number of times,
\* leaves no timer scheduled and no event held; called when none is held (after
\* a stop, or before any start) it changes nothing; and start_auto_finalizer
\* called afterwards schedules the one timer again.
C16_StopIdempotent ==
    [][/\ call_stop_auto_finalizer => (~auto_event' /\ clock_events' = 0)
       /\ (call_stop_auto_finalizer /\ ~auto_event) => UNCHANGED vars
       /\ call_start_auto_finalizer => (auto_event' /\ clock_events' = 1)
      ]_vars

\* the main screen is shown and its timer is stopped: stop_auto_finalizer was
\* called outside on_leave
C16_Witness == running /\ screen = "main" /\ ~auto_event /\ clock_events = 0

\* C17: from the logout on, until the main screen is entered again, no tick
\* starts a worker.
C17_NoDispatchAfterLogout ==
    [][(running /\ screen = "login") => Len(workers') <= Len(workers)]_vars

\* C18: no stop runs against a session while another one is in flight for it:
\* acao_finalizar never runs while a worker started for the held id has not
\* finished, and no two workers are in flight for the same id.
C18_StopsAreSequential ==
    [][/\ (current_activity_id # 0 /\ \E out \in FinalizeOutcomes : acao_finalizar(out))
            => \A i \in DOMAIN workers : workers[i].act_id # current_activity_id
       /\ \A i, j \in DOMAIN workers' :
            i # j => workers'[i].act_id # workers'[j].act_id
      ]_vars

-----------------------------------------------------------------------------
(* The sweep of the rows left open: claims C19 and C20 *)

\* C19: when finalizar_atividades_em_andamento returns from its loop, it has
\* called finalizar_atividade for every id its select listed, whether earlier
\* calls raised or not, and the number it returns is the number of listed ids
\* for which the call succeeded.
C19_SweepCountsSuccesses ==
    [][\A k \in DOMAIN sweeps :
          sweep_return(k) =>
            /\ sweeps[k].tried = sweeps[k].listed
            /\ sweeps[k].closed \subseteq sweeps[k].listed
            /\ sweeps[k].sucesso = Cardinality(sweeps[k].closed)
      ]_vars

\* two rows were listed, one close raised, the loop is over and 1 is returned
C19_Witness ==
    \E k \in DOMAIN sweeps :
        /\ sweeps[k].phase = "loop"
        /\ sweeps[k].todo = {}
        /\ Cardinality(sweeps[k].listed) = 2
        /\ Cardinality(sweeps[k].tried) = 2
        /\ sweeps[k].sucesso = 1

\* C20: no step of a sweep (the start of its thread, its select, a turn of its
\* loop, its return) changes current_activity_id or the selection state.
C20_SweepLeavesSession ==
    [][(\/ finalize_ativos_threaded
        \/ \E k \in DOMAIN sweeps, out \in ListOutcomes : sweep_list(k, out)
        \/ \E k \in DOMAIN sweeps, id \in DOMAIN store, out \in FinalizeOutcomes :
              sweep_close(k, id, out)
        \/ \E k \in DOMAIN sweeps : sweep_return(k))
       => UNCHANGED session]_vars

\* a sweep has closed the row of the held session and the state is still Active
C20_Witness ==
    /\ current_activity_id # 0
    /\ em_andamento
    /\ \E k \in DOMAIN sweeps : current_activity_id \in sweeps[k].closed
    /\ store[current_activity_id].fim # <<>>

-----------------------------------------------------------------------------
(* The way out of main(): claims C21 to C24 *)

\* C21: _finalize_ativos_blocking returns control to its caller once its
\* timeout has elapsed, even if the store call of its sweep never returns: a
\* main thread waiting in the join eventually goes on, and the join that returns
\* with the sweep thread alive leaves that thread, and every other, as it is.
C21_BoundedWaitReturns ==
    /\ (closing \in Waits) ~> (closing \notin Waits)
    /\ [][(closing \in Waits /\ closing' = "exiting" /\ BlockingAlive)
            => SubSeq(sweeps', 1, Len(sweeps)) = sweeps]_vars

\* the wait is over and the sweep it started has not had its first answer
C21_Witness ==
    /\ closing = "exiting"
    /\ \E k \in DOMAIN sweeps : ~sweeps[k].daemon /\ sweeps[k].phase = "list"

\* C22: after a window-close or KeyboardInterrupt shutdown whose bounded wait
\* timed out (sys.exit was called with the sweep thread of the wait alive), the
\* process eventually exits, even if the store call of that sweep never returns.
C22_ExitAfterTimeout == (closing = "exiting" /\ BlockingAlive) ~> (closing = "done")

\* C23: the trigger selects the finalizer. The close of the window starts the
\* sweep on a thread that is no daemon and waits for it in the join. A signal
\* handled by main()'s handler, the App's on_stop and the atexit handler start
\* the sweep on a daemon thread that has made no store call when the caller goes
\* on: the main loop keeps running after the signal, main() goes on to sys.exit
\* after on_stop, and the process ends after the atexit handler whatever its
\* daemon threads do.
C23_TriggerSelectsMode ==
    /\ [][/\ (running /\ closing' = "window")
               => /\ sweeps' = Append(sweeps, NewSweep(FALSE))
                  /\ ~running'
          /\ (running /\ running' /\ sweeps' # sweeps /\ Len(sweeps') > Len(sweeps))
               => /\ sweeps' = Append(sweeps, NewSweep(TRUE))
                  /\ closing' = "no"
          /\ (closing = "window" /\ closing' = "exiting")
               => sweeps' = Append(sweeps, NewSweep(TRUE))
          /\ (closing = "exiting" /\ closing' = "atexit")
               => sweeps' = Append(sweeps, NewSweep(TRUE))
         ]_vars
    /\ (closing = "atexit") ~> (closing = "done")

\* the window was closed and the main thread waits for the sweep, which is no
\* daemon, while a sweep a signal started earlier runs as a daemon
C23_Witness ==
    /\ closing = "window"
    /\ \E k \in DOMAIN sweeps : sweeps[k].daemon
    /\ \E k \in DOMAIN sweeps : ~sweeps[k].daemon

\* C24: when the process shuts down (the window is closed, or KeyboardInterrupt
\* reaches main()) with a store that answers within the grace period, every row
\* that was open when the shutdown began has fim set before the process ends:
\* from the moment main() leaves the wait for sys.exit, no row is open. (Once
\* the shutdown has begun the main loop handles no event, so no row is opened.)
C24_ShutdownClosesOpenRows ==
    closing \in {"exiting", "atexit", "done"} => \A i \in DOMAIN store : ~Open(i)

\* the process has ended and the rows of two users, open when the window was
\* closed, are closed
C24_Witness ==
    /\ closing = "done"
    /\ Len(store) = 2
    /\ store[1].user_id # store[2].user_id
    /\ \A i \in DOMAIN store : store[i].fim = <<now>>

-----------------------------------------------------------------------------
(* The credential vault: claims C25 to C29 *)

\* the folder of users.json can be searched: load_users returns
Searchable == users_json.state # "no_access"

\* C25: on_create, for a name and a password that pass its validation. When the
\* name is one of the record set load_users gives, it fails with "Usuario ja
\* existe" and users.json is left as it is. Otherwise, when save_users raises
\* nothing, users.json holds the records it held and, under that name, a record
\* hash_password made: one that accepts the password typed and no other.
C25_CreateAccount ==
    [][\A user_t \in TypedUsers, pwd_t \in TypedPasswords, salt \in Salts,
          out \in SaveOutcomes :
          (/\ Searchable
           /\ strip(user_t) # "" /\ strip(pwd_t) # ""
           /\ on_create(user_t, pwd_t, pwd_t, salt, out))
          => LET users == load_users(users_json).users
                 user == strip(user_t)
             IN  IF user \in DOMAIN users
                 THEN popup' = MsgJaExiste /\ users_json' = users_json
                 ELSE out = "ok" =>
                        /\ popup' = MsgContaCriada
                        /\ users_json'.state = "dict"
                        /\ DOMAIN users_json'.users = DOMAIN users \cup {user}
                        /\ \A u \in DOMAIN users : users_json'.users[u] = users[u]
                        /\ \A p \in Passwords :
                              login_ok(p, users_json'.users[user]) = "true"
                                  <=> p = strip(pwd_t)
      ]_vars

\* an account was refused for a name that exists
C25_Witness == popup = MsgJaExiste /\ users_json.state = "dict"

\* C26: fazer_login, for a name and a password that are not empty. When
\* load_users gives no record for the name, it reports "Usuario nao encontrado"
\* and logs nobody in. Otherwise it sets app.user_id and enters the main screen
\* exactly when the record verifies the password; when it does not, it reports
\* "Usuario ou senha incorretos" and leaves user_id and the screen as they were.
C26_Login ==
    [][\A username_t \in TypedUsers, password_t \in TypedPasswords, out \in LookupOutcomes :
          (/\ Searchable
           /\ strip(username_t) # "" /\ strip(password_t) # ""
           /\ LoginScreen_fazer_login(username_t, password_t, out))
          => LET users == load_users(users_json).users
                 username == strip(username_t)
             IN  IF username \notin DOMAIN users \/ users[username].kind = "falsy"
                 THEN /\ popup' = MsgNaoEncontrado
                      /\ user_id' = user_id /\ screen' = screen
                 ELSE IF login_ok(strip(password_t), users[username]) = "true"
                 THEN user_id' = username /\ screen' = "main" /\ popup' = popup
                 ELSE /\ popup' = MsgIncorretos
                      /\ user_id' = user_id /\ screen' = screen
      ]_vars

\* a wrong password was refused while a record of that name exists
C26_Witness ==
    /\ popup = MsgIncorretos
    /\ user_id = "" /\ screen = "login"
    /\ users_json.state = "dict"
    /\ DOMAIN users_json.users = Users
    /\ \A u \in Users : users_json.users[u] = GoodRecord

\* C27: for every password p, salt and iteration count n >= 1,
\* verify_password(p, ...) of the salt, the hash and the iteration count of the
\* record hash_password(p, salt, n) returned is true.
C27_RoundTrip ==
    (vault_call # NoCall /\ vault_call.tried = vault_call.password)
        => vault_call.accepted = "true"

\* a round trip with an iteration count that is not the default
C27_Witness ==
    /\ vault_call.password = "xyz" /\ vault_call.tried = "xyz"
    /\ vault_call.record.iters = Field("int", <<1>>)
    /\ vault_call.accepted = "true"

\* a record with a salt or a hash that is missing or does not decode, or an
\* iteration count that is no number
Malformed(record) ==
    /\ record.kind = "dict"
    /\ \/ record.salt.kind \in {"missing", "text"}
       \/ record.hash.kind \in {"missing", "text"}
       \/ record.iters.kind = "text"

\* C28: a login against a malformed record is refused as a wrong password: no
\* exception leaves fazer_login (the main loop keeps running) and nobody is
\* logged in.
C28_MalformedRecordRefused ==
    [][\A username_t \in TypedUsers, password_t \in TypedPasswords, out \in LookupOutcomes :
          (/\ users_json.state = "dict"
           /\ strip(username_t) \in DOMAIN users_json.users
           /\ strip(password_t) # ""
           /\ Malformed(users_json.users[strip(username_t)])
           /\ LoginScreen_fazer_login(username_t, password_t, out))
          => /\ login_ok(strip(password_t), users_json.users[strip(username_t)]) = "false"
             /\ popup' = MsgIncorretos
             /\ running' /\ closing' = "no"
             /\ user_id' = user_id /\ screen' = screen
      ]_vars

\* a login was refused for a wrong password and every record of the file is
\* malformed
C28_Witness ==
    /\ popup = MsgIncorretos
    /\ running
    /\ users_json.state = "dict"
    /\ DOMAIN users_json.users = Users
    /\ \A u \in Users : Malformed(users_json.users[u])
    /\ users_json.users["ana"].iters.kind = "text"
    /\ users_json.users["bia"].salt.kind = "missing"

\* C29: when users.json cannot be read (open refuses it, or its folder refuses
\* the search) or cannot be parsed, load_users gives the empty record set and a
\* login with a name and a password reports "Usuario nao encontrado"; no
\* exception leaves fazer_login.
C29_UnreadableFileIsNoUsers ==
    [][\A username_t \in TypedUsers, password_t \in TypedPasswords, out \in LookupOutcomes :
          (/\ users_json.state \in {"unreadable", "corrupt", "no_access"}
           /\ strip(username_t) # "" /\ strip(password_t) # ""
           /\ LoginScreen_fazer_login(username_t, password_t, out))
          => /\ ~load_users(users_json).raises
             /\ load_users(users_json).users = NoUsers
             /\ popup' = MsgNaoEncontrado
             /\ running' /\ closing' = "no"
      ]_vars

-----------------------------------------------------------------------------
(* The auto-finalizer's record of the checkpoints: claim C30 *)

\* C30: a tick in a checkpoint minute that has not fired today sets the
\* checkpoint's entry of _auto_finalize_last_date to today, whether a session is
\* held or not: while the timer runs in such a minute the entry gets set. The
\* entry is set in the state in which the finalization is dispatched (a worker
\* is started only by a step that leaves the entry set to today), and it stays
\* set while the finalization is in flight and when its result, success or
\* failure, is handed to the Clock.
C30_MarkedBeforeDispatch ==
    /\ \A h \in targets :
         (running /\ clock_events > 0 /\ HHMM(now) = h /\ last_date[h] # <<DateOf(now)>>)
            ~> (last_date[h] = <<DateOf(now)>> \/ HHMM(now) # h \/ ~running)
    /\ [][/\ (running /\ clock_events > 0 /\ auto_finalize_check
                /\ HHMM(now) \in targets /\ last_date[HHMM(now)] # <<DateOf(now)>>)
               => last_date'[HHMM(now)] = <<DateOf(now)>>
          /\ Len(workers') > Len(workers)
               => last_date'[workers'[Len(workers')].time_str] = <<DateOf(now)>>
          /\ \A i \in DOMAIN workers' :
               last_date'[workers'[i].time_str] = <<DateOf(now')>>
          /\ \A i \in DOMAIN callbacks' :
               last_date'[callbacks'[i].time_str] = <<DateOf(now')>>
         ]_vars

\* the checkpoint is marked fired today and the finalization it dispatched has
\* failed: the session is still held and the error callback waits in the Clock
C30_Witness ==
    /\ running
    /\ current_activity_id # 0
    /\ last_date[HHMM(now)] = <<DateOf(now)>>
    /\ callbacks # <<>> /\ Head(callbacks).kind = "error"

-----------------------------------------------------------------------------
(* The reach of the sweep and of the stops: claims C31 to C35 *)

\* C31: the sweep targets every open row of the store, whoever owns it: its
\* select lists the id of every row with fim absent, of every user_id, and a
\* turn of its loop whose store call succeeds closes the row of the id it is
\* about, whether the row belongs to the logged-in user or not.
C31_SweepIsSystemWide ==
    [][/\ \A k \in DOMAIN sweeps :
            sweep_list(k, "ok") =>
               \A i \in DOMAIN store : Open(i) => i \in sweeps'[k].listed
       /\ \A k \in DOMAIN sweeps, id \in DOMAIN store :
            (sweep_close(k, id, "ok") /\ Open(id)) => store'[id].fim # <<>>
      ]_vars

\* bia is logged in and a sweep has closed a row of ana
C31_Witness ==
    /\ user_id = "bia"
    /\ screen = "main"
    /\ \E k \in DOMAIN sweeps : \E i \in sweeps[k].closed :
          /\ store[i].user_id = "ana"
          /\ store[i].fim # <<>>

\* the checkpoints named by the docstring of _auto_finalize_check and by the
\* comment in __init__: 11:30 and 17:40
documented_targets == {<<11, 30>>, <<17, 40>>}

\* C32: the auto-finalizer's checkpoints are 11:30 and 17:40: a tick dispatches
\* the finalization of the held session only in one of those minutes of the
\* day.
C32_CheckpointsAreDocumented ==
    [][(running /\ clock_events > 0 /\ auto_finalize_check
          /\ Len(workers') > Len(workers))
       => HHMM(now) \in documented_targets
      ]_vars

\* C33: whenever the state machine is Active, the id it holds is the id of a row
\* of the store that is still open (fim absent).
C33_ActiveIdIsOpen ==
    (running /\ current_activity_id # 0) =>
        /\ current_activity_id \in DOMAIN store
        /\ Open(current_activity_id)

\* C34: the success callback of a scheduled finalization resets the state only
\* for the session its worker closed. The row the worker closed has fim set when
\* the callback runs, so a callback that finds the held id on a row still open
\* (a session started while the worker was in flight) leaves that id held.
C34_CallbackKeepsNewSession ==
    [][(/\ running
        /\ run_callback
        /\ Head(callbacks).kind = "success"
        /\ current_activity_id # 0
        /\ Open(current_activity_id))
       => current_activity_id' = current_activity_id
      ]_vars

\* C35: an interactive stop, and a stop dispatched by a tick at a checkpoint,
\* is only ever for a session owned by the identity logged in at that moment:
\* the row acao_finalizar asks the store to close, and the row a worker is
\* started for, has the user_id of the App.
C35_StopsOwnSessionOnly ==
    [][/\ (/\ running /\ screen = "main" /\ popup = NoneStr /\ em_andamento
           /\ current_activity_id # 0
           /\ \E out \in FinalizeOutcomes : acao_finalizar(out))
          => store[current_activity_id].user_id = user_id
       /\ (/\ running /\ clock_events > 0 /\ screen = "main" /\ user_id # ""
           /\ auto_finalize_check
           /\ Len(workers') > Len(workers))
          => store[workers'[Len(workers')].act_id].user_id = user_id
      ]_vars

-----------------------------------------------------------------------------
(* The frame of on_create: claim C36 *)

\* C36: creating an account removes and alters the record of no other user:
\* after on_create has reported "Conta criada", users.json holds, under every
\* other name, the record it held before, and only the new name is added; also
\* when the load_users before it could not read the file.
C36_CreateKeepsOthers ==
    [][\A user_t \in TypedUsers, pwd_t \in TypedPasswords, salt \in Salts :
          (/\ strip(user_t) # "" /\ strip(pwd_t) # ""
           /\ on_create(user_t, pwd_t, pwd_t, salt, "ok")
           /\ popup' = MsgContaCriada)
          => /\ DOMAIN users_json'.users = DOMAIN users_json.users \cup {strip(user_t)}
             /\ \A u \in DOMAIN users_json.users \ {strip(user_t)} :
                   users_json'.users[u] = users_json.users[u]
      ]_vars

-----------------------------------------------------------------------------
(* The sweeps of one shutdown and the signals: claims C37 and C38 *)

\* C37: during one shutdown at most one sweep is running at any time. In a
\* process without signal handlers every sweep is the bounded-wait one of the
\* window's close (or of the interrupt), the one of the on_stop wrapper or the
\* one of atexit: from the moment the shutdown begins, no two sweep threads are
\* alive together, and so no row is closed by two of them.
C37_OneSweepAtATime ==
    (~signals_bound /\ closing # "no") =>
        /\ Len(sweeps) <= 1
        /\ \A j, k \in DOMAIN sweeps :
              j # k => sweeps[j].closed \cap sweeps[k].closed = {}

\* C38: after SIGINT or SIGTERM has been delivered to the running application
\* (the handler main() installed has started its sweep; no shutdown has begun),
\* the process eventually terminates.
C38_SignalTerminates ==
    (signals_bound /\ running /\ closing = "no" /\ sweeps # <<>>) ~> (closing = "done")
====
